---- MODULE Spec2Model ----
(***************************************************************************)
(* Model of the platformer in src/Untitled-1.c: the level builder, the    *)
(* player/tile collision helpers, the enemy patrol and the main loop       *)
(* (key handling and the per-frame STATE_PLAY update).                     *)
(*                                                                         *)
(* Numbers.  SDL_Rect fields are integers (pixels).  The float fields of   *)
(* Player (r.x, r.y, r.w, r.h, vx, vy) are kept in fixed point, Unit =     *)
(* 100 steps per pixel, so 0.9f is 90 and JUMP_VEL is -1200; the only      *)
(* product that is not a whole number of steps (vx *= 0.82f) is rounded to *)
(* the nearest step.  roundf is modelled exactly on these values (half     *)
(* away from zero).  big_timer counts steps of 1/FPS seconds (12.0f is     *)
(* 720).                                                                   *)
(*                                                                         *)
(* Time.  SDL_GetTicks is the environment's: a frame lasts at least 1/FPS  *)
(* s and has no upper bound, so whether the level timer has run out when   *)
(* line 540 reads the clock is an input of the frame (time_up).  The one  *)
(* constraint kept is that the 300 s of level_time do not pass inside the  *)
(* loop iteration whose key handler has just set t0 (t0_fresh).            *)
(*                                                                         *)
(* Not modelled: rendering (lines 552-664) and SDL_QUIT / Escape, which    *)
(* only end the loop.                                                      *)
(***************************************************************************)
EXTENDS Integers, Sequences, FiniteSets, TLC

(* ---------------- CONFIG (src lines 27-32, 89, 140-152) ---------------- *)
SCREEN_H == 540
TILE == 48
FPS == 60
GRAVITY == 60
MAX_XSPEED == 600
JUMP_VEL == -1200
NUM_LEVELS == 3
MAX_SOLIDS == 1024
MAX_COINS == 512
MAX_ENEMIES == 128
MAX_MUSH == 64
\* fixed-point steps per pixel for the float fields
Unit == 100

LEVELS ==
  <<
    <<
      <<" "," "," "," "," "," "," "," "," "," "," "," "," "," "," "," "," "," "," "," "," "," "," "," "," "," "," "," "," "," "," "," "," "," "," "," "," "," "," "," "," "," "," "," "," "," "," "," "," "," "," "," "," "," "," "," "," "," "," "," "," "," "," "," "," "," "," "," "," "," "," "," "," "," "," "," "," "," "," "," ">>,
      <<" "," "," "," "," "," "," "," "," "," "," "," "," "," "," "," "," "," "," "," "," "," "," "," "," "," "," "," "," "," "," "," "," "," "," "," "," "," "," "," "," "," "," "," "," "," "," "," "," "," "," "," "," "," "," "," "," "," "," "," "," "," "," "," "," "," "," "," "," "," "," "," "," "," "," "," "," "," "," "," ">>,
      <<" "," "," "," "," "," "," "," "," "," "," "," "," "," "," "," "," "," "," "," "," "," "," "," "," "," "," "," "," "," "," "," "," "," "," "," "," "," "," "," "," "," "," "," "," "," "," "," "," "," "," "," "," "," "," "," "," "," "," "," "," "," "," "," "," "," "," "," "," "," "," "," "," "," "," "," "," "," "," "," ">>,
      <<" "," "," "," "," "," "," "," "," "," "," "," "," "," "," "," "," "," "," ","C"," "," "," "," "," "," "," "," "," "," "," "," "," "," "," "," "," "," "," "," "," "," "," "," "," "," "," "," "," "," "," "," "," "," "," "," "," "," "," "," "," "," "," "," "," "," "," "," "," "," "," "," "," "," "," "," "," "," "," "," ">>,
      <<" "," "," "," "," "," "," "," ","C"," "," "," "," "," "," "," "," "," "," "," "," "," "," "," "," "," "," "," "," "," "," "," "," "," "," "," "," "," "," "," "," "," "," "," "," "," "," "," "," "," "," "," "," "," "," "," "," "," "," "," "," "," "," "," "," "," "," "," "," "," "," "," "," "," "," "," "," "," "," "," ","F">>,
      <<" "," "," "," ","C"," "," "," "," "," "," "," ","E"," "," "," "," "," "," "," "," "," "," "," "," "," "," "," "," "," ","C"," "," "," "," "," "," "," "," "," "," "," "," "," "," "," "," "," "," "," "," "," "," "," "," "," "," "," "," "," "," "," "," "," "," "," "," "," "," "," "," "," "," "," "," "," "," "," "," "," ">>,
      <<"X","X","X","X","X","X","X","X","X","X","X","X"," "," "," "," "," "," ","X","X","X","X"," "," "," "," "," ","X","X","X","X","X","X","X","X"," "," "," "," "," "," ","C"," "," "," "," "," "," "," "," "," "," "," "," "," "," "," "," "," "," "," "," "," ","C"," "," "," "," "," "," "," "," "," "," "," "," "," "," "," ">>,
      <<"=","=","=","=","=","=","=","=","=","=","t","t","t","t","t","t","t","t","t","t","t","t","t","t","t","t","t","t","t","t","t","t","t","t","t","t","t","t","t","t","t","t","t","t","t","t","t","t","t","t","t","t","t","t","t","t","t","t","t","t","t","t","t","t","t","t","t","t","t","t","t","t","t","t","t","t","t","t","t">>
    >>,
    <<
      <<" "," "," "," "," "," "," "," "," "," "," "," "," "," "," "," "," "," "," "," "," "," "," "," "," "," "," "," "," "," "," "," "," "," "," "," "," "," "," "," "," "," "," "," "," "," "," "," "," "," "," "," "," "," "," "," "," "," "," "," "," "," "," "," "," "," "," "," "," "," "," "," "," "," "," "," "," "," "," "," ">>,
      <<" "," "," "," "," "," "," "," "," "," "," "," "," "," "," "," "," "," "," "," "," "," "," "," "," "," "," "," "," "," "," "," "," "," "," "," "," "," "," "," "," "," "," "," "," "," "," "," "," "," "," "," "," "," "," "," "," "," "," "," "," "," "," "," "," "," "," "," "," "," "," "," "," "," "," "," "," "," "," "," ">>,
      <<" "," "," "," "," "," "," "," ","C"," "," "," "," "," "," "," "," "," "," "," "," "," "," "," "," "," "," "," "," "," "," "," "," "," "," "," "," "," "," "," ","C"," "," "," "," "," "," "," "," "," "," "," "," "," "," "," "," "," "," "," "," "," "," "," "," "," "," "," "," "," "," "," "," "," "," "," "," "," "," "," ">>,
      <<" "," "," "," "," "," "," "," "," "," "," "," "," "," "," "," ","E"," "," "," "," "," "," "," "," "," "," "," "," "," "," "," "," "," ","C"," "," "," "," "," "," "," "," "," "," "," "," "," "," "," "," "," "," "," "," "," "," "," "," "," "," "," "," "," "," "," "," "," "," "," "," "," "," "," "," "," "," "," "," "," "," ">>,
      <<" "," "," "," ","X","X","X","X","X"," "," "," "," "," "," "," "," ","X","X","X","X","X","X"," "," "," "," "," "," ","X","X","X","X","X","X","X","X"," "," "," "," "," "," "," "," "," "," "," "," "," "," ","C"," "," "," "," "," "," "," "," "," "," "," "," "," "," "," ","F"," "," "," "," "," "," "," "," "," "," "," ">>,
      <<" "," "," "," "," "," "," "," "," "," ","C"," "," "," "," "," "," "," "," "," "," "," "," "," "," "," ","C"," "," "," "," "," "," "," "," "," ","E"," "," "," "," "," "," "," "," "," "," "," "," "," "," "," "," "," "," "," "," "," "," "," "," "," "," "," "," "," "," "," "," "," "," "," "," "," ","C"," "," "," "," ">>,
      <<" "," "," ","C"," "," "," "," ","X","X","X","X","X","X","X","X","X","X","X","X","X","X","X","X","X","X","X","X","X","X","X","X","X","X","X","X","X","X","X","X","X","X","X","X","X","X","X","X","X","X","X","X","X","X","X","X"," "," "," ","C"," "," "," "," "," "," "," "," "," "," "," "," "," "," "," "," "," "," "," "," ">>,
      <<"=","=","=","=","=","=","=","=","=","=","t","t","t","t","t","t","t","t","t","t","t","t","t","t","t","t","t","t","t","t","t","t","t","t","t","t","t","t","t","t","t","t","t","t","t","t","t","t","t","t","t","t","t","t","t","t","t","t","t","t","t","t","t","t","t","t","t","t","t","t","t","t","t","t","t","t","t","t","t">>
    >>,
    <<
      <<" "," "," "," "," "," "," "," "," "," "," "," "," "," "," "," "," "," "," "," "," "," "," "," "," "," "," "," "," "," "," "," "," "," "," "," "," "," "," "," "," "," "," "," "," "," "," "," "," "," "," "," "," "," "," "," "," "," "," "," "," "," "," "," "," "," "," "," "," "," "," "," "," "," "," "," "," "," "," "," ">>,
      <<" "," "," "," "," "," "," "," "," "," "," "," "," "," "," "," "," "," "," "," "," "," "," "," "," "," "," "," "," "," "," "," "," "," "," "," "," "," "," "," "," "," "," "," "," "," "," "," "," "," "," "," "," "," "," "," "," "," "," "," "," "," "," "," "," "," "," "," "," "," "," "," "," "," "," "," "," "," "," "," ">>,
      <<" "," "," "," "," "," "," "," "," "," "," "," "," "," "," "," "," "," "," ","C"," "," "," "," "," "," "," "," "," "," "," "," "," "," "," ","E"," "," "," "," "," "," "," "," "," "," "," "," "," "," "," "," "," "," "," "," "," "," "," "," "," "," "," "," "," "," "," "," "," "," "," "," "," "," "," "," "," "," "," "," ">>,
      <<" "," "," "," "," "," "," "," ","M"," "," "," "," "," "," "," ","X","X","X","X"," "," "," "," "," "," ","C"," "," "," "," "," "," ","X","X","X","X","X"," "," "," "," "," "," "," ","C"," "," "," "," "," "," "," "," "," "," "," "," "," "," "," "," "," "," "," "," "," "," "," "," "," "," ","F"," "," "," "," "," "," "," "," ">>,
      <<" "," "," "," ","C"," "," "," "," "," "," "," "," "," "," "," ","X"," "," ","X"," "," "," "," "," "," "," "," "," "," "," "," "," "," ","X"," "," "," ","X"," "," "," "," "," "," "," "," "," "," "," "," "," "," "," "," ","E"," "," "," "," "," "," "," "," "," "," "," "," "," "," "," "," "," ","C"," "," "," "," "," "," ">>,
      <<"X","X","X","X","X","X","X","X","X","X","X","X"," "," "," "," ","X"," "," ","X"," "," "," "," ","C"," "," "," "," ","C"," "," "," "," ","X"," "," "," ","X"," "," "," "," ","C"," "," "," "," ","C"," "," "," "," ","X"," "," "," ","X"," "," "," "," ","C"," "," "," "," ","C"," "," "," "," ","X","X","X"," "," "," "," ">>,
      <<"=","=","=","=","=","=","=","=","=","=","t","t","t","t","t","t","t","t","t","t","t","t","t","t","t","t","t","t","t","t","t","t","t","t","t","t","t","t","t","t","t","t","t","t","t","t","t","t","t","t","t","t","t","t","t","t","t","t","t","t","t","t","t","t","t","t","t","t","t","t","t","t","t","t","t","t","t","t","t">>,
      <<" "," "," "," "," "," "," "," "," "," "," "," "," "," "," "," "," "," "," "," "," "," "," "," "," "," "," "," "," "," "," "," "," "," "," "," "," "," "," "," "," "," "," "," "," "," "," "," "," "," "," "," "," "," "," "," "," "," "," "," "," "," "," "," "," "," "," "," "," "," "," "," "," "," "," "," "," "," "," "," ">>
    >>
  >>

(* ---------------- HELPERS ---------------- *)
Abs(v) == IF v < 0 THEN -v ELSE v

\* roundf on a fixed-point value: nearest integer, halves away from zero
roundf(v) == IF v >= 0 THEN (v + Unit \div 2) \div Unit
                       ELSE -((-v + Unit \div 2) \div Unit)

\* v * (num/100) for a float factor given in hundredths, rounded to the
\* nearest fixed-point step
fmul(v, num) == IF v >= 0 THEN (v * num + 50) \div 100
                          ELSE -((-v * num + 50) \div 100)

Rect(x, y, w, h) == [x |-> x, y |-> y, w |-> w, h |-> h]

aabb_int(a, b) ==
  ~(a.x + a.w <= b.x \/ a.x >= b.x + b.w \/ a.y + a.h <= b.y \/ a.y >= b.y + b.h)

\* the integer rectangle the code builds from a float rectangle before a test
IntRect(fr) == Rect(roundf(fr.x), roundf(fr.y), roundf(fr.w), roundf(fr.h))

\* index of the first solid that overlaps rect t, 0 when none does
\* (the loops "for i < solids_count: if aabb_int(t, solids[i]) ... break")
FirstHit(t, sol) ==
  LET hits == {i \in 1..Len(sol) : aabb_int(t, sol[i])}
  IN IF hits = {} THEN 0 ELSE CHOOSE i \in hits : \A k \in hits : i <= k

(* ---------------- LEVEL BUILD ---------------- *)
\* the cells of row j (0-based) in scan order, each with its pixel position
RowCells(row, j) ==
  [i \in 1..Len(row) |-> [ch |-> row[i], x |-> (i - 1) * TILE, y |-> j * TILE]]

RECURSIVE ScanCells(_, _)
\* the cells of the first `rows` rows in the order the two loops visit them
ScanCells(map_lines, rows) ==
  IF rows = 0 THEN << >>
  ELSE ScanCells(map_lines, rows - 1) \o RowCells(map_lines[rows], rows - 1)

\* an array with a count: entries are appended while count < cap, later ones
\* are dropped without a signal
Capped(seq, cap) == IF Len(seq) > cap THEN SubSeq(seq, 1, cap) ELSE seq

SolidOf(c) == IF c.ch = "t" THEN Rect(c.x, c.y + TILE \div 2, TILE, TILE \div 2)
                            ELSE Rect(c.x, c.y, TILE, TILE)

CoinOf(c) == [r |-> Rect(c.x + TILE \div 4, c.y + TILE \div 4, TILE \div 2, TILE \div 2),
              active |-> 1]

EnemyOf(c) == [r |-> Rect(c.x + 6, c.y + 8, TILE - 12, TILE - 16),
               active |-> 1, dir |-> -1, speed |-> 120]

MushOf(c) == [r |-> Rect(c.x + 12, c.y + 12, TILE - 24, TILE - 24), active |-> 1]

GoalOf(c) == Rect(c.x + TILE \div 2 - 6, c.y - 4 * TILE, 12, 4 * TILE)

IsSolidCellAny(c) == c.ch # " "

IsSolidCell(c) == c.ch = "X" \/ c.ch = "=" \/ c.ch = "t"
IsCoinCell(c) == c.ch = "C"
IsEnemyCell(c) == c.ch = "E"
IsMushCell(c) == c.ch = "M"
IsGoalCell(c) == c.ch = "F"

\* build_level: every array restarts empty and takes its entries in scan
\* order; goal_rect is only written by an 'F' (the last one wins) and keeps
\* its old value otherwise
build_level(map_lines, rows, old_goal) ==
  LET cells == ScanCells(map_lines, rows)
      s == SelectSeq(cells, IsSolidCell)
      c == SelectSeq(cells, IsCoinCell)
      e == SelectSeq(cells, IsEnemyCell)
      m == SelectSeq(cells, IsMushCell)
      f == SelectSeq(cells, IsGoalCell)
  IN [solids  |-> Capped([k \in 1..Len(s) |-> SolidOf(s[k])], MAX_SOLIDS),
      coins   |-> Capped([k \in 1..Len(c) |-> CoinOf(c[k])], MAX_COINS),
      enemies |-> Capped([k \in 1..Len(e) |-> EnemyOf(e[k])], MAX_ENEMIES),
      mush    |-> Capped([k \in 1..Len(m) |-> MushOf(m[k])], MAX_MUSH),
      goal_rect   |-> IF f = << >> THEN old_goal ELSE GoalOf(f[Len(f)]),
      goal_exists |-> IF f = << >> THEN 0 ELSE 1]

(* ---------------- COLLISION helpers for player (float rect) ---------------- *)
resolve_horz_through(p, sol) == [p EXCEPT !.r.x = p.r.x + p.vx]

resolve_horz_collision(p, sol) ==
  LET test == IntRect([p.r EXCEPT !.x = p.r.x + p.vx])
      i == FirstHit(test, sol)
  IN IF i # 0
     THEN [p EXCEPT !.r.x = IF p.vx > 0 THEN sol[i].x * Unit - p.r.w
                             ELSE IF p.vx < 0 THEN (sol[i].x + sol[i].w) * Unit
                             ELSE p.r.x,
                    !.vx = 0]
     ELSE [p EXCEPT !.r.x = p.r.x + p.vx]

resolve_vert_collision(p, sol) ==
  LET test == IntRect([p.r EXCEPT !.y = p.r.y + p.vy])
      i == FirstHit(test, sol)
  IN IF i # 0
     THEN [p EXCEPT !.r.y = IF p.vy > 0 THEN sol[i].y * Unit - p.r.h
                             ELSE IF p.vy < 0 THEN (sol[i].y + sol[i].h) * Unit
                             ELSE p.r.y,
                    !.on_ground = IF p.vy > 0 THEN 1 ELSE 0,
                    !.vy = 0]
     ELSE [p EXCEPT !.r.y = p.r.y + p.vy, !.on_ground = 0]

(* ---------------- ENEMY movement ---------------- *)
enemy_move_through(e, sol) == [e EXCEPT !.r.x = e.r.x + roundf(e.dir * e.speed)]

\* lines 242-252: the move, undone and reversed on a solid
enemy_move(e, sol) ==
  LET moved == [e EXCEPT !.r.x = e.r.x + roundf(e.dir * e.speed)]
  IN IF FirstHit(moved.r, sol) # 0
     THEN [e EXCEPT !.dir = -e.dir]
     ELSE moved

\* lines 253-256: the probe rectangle ahead of and below the enemy
foot(e) == Rect(e.r.x + (IF e.dir > 0 THEN e.r.w + 2 ELSE -4), e.r.y + e.r.h + 2, 2, 2)

\* lines 257-261: reverse when the probe finds no solid
enemy_probe(e, sol) ==
  IF FirstHit(foot(e), sol) = 0 THEN [e EXCEPT !.dir = -e.dir] ELSE e

update_enemies(en, sol) ==
  [i \in 1..Len(en) |-> IF en[i].active = 0 THEN en[i]
                        ELSE enemy_probe(enemy_move(en[i], sol), sol)]

(* ---------------- GAME INIT / START ---------------- *)
RECURSIVE spawn_drop(_, _, _, _)
\* lines 331-349: drop a TILE-12 x TILE-8 rectangle from (60, 0), one pixel
\* per frame faster each iteration, until it overlaps a solid, then stand it
\* on the first overlapping solid.  Once the rectangle is below every solid
\* no later iteration can hit, and the iterations left up to 2000 only add
\* vy to y: the sum is taken in one step.
spawn_drop(iter, y, vy, sol) ==
  IF iter >= 2000 THEN y
  ELSE LET vy2 == vy + Unit
           y2 == y + vy2
           test == Rect(roundf(60 * Unit), roundf(y2), TILE - 12, TILE - 8)
           s == FirstHit(test, sol)
       IN IF s # 0 THEN sol[s].y * Unit - (TILE - 8) * Unit
          ELSE IF \A i \in 1..Len(sol) : test.y >= sol[i].y + sol[i].h
               THEN y2 + ((2000 * 2001 - (iter + 1) * (iter + 2)) \div 2) * Unit
               ELSE spawn_drop(iter + 1, y2, vy2, sol)

\* start_level: rebuilds the level from LEVELS[idx] and places the player;
\* it writes r, vx, vy and spawn and no other field of the player
start_level(lv, pl, old_goal) ==
  LET b == build_level(lv, 8, old_goal)
      y == spawn_drop(0, 0, 0, b.solids)
  IN [level |-> b,
      player |-> [pl EXCEPT !.r = Rect(60 * Unit, y, (TILE - 12) * Unit, (TILE - 8) * Unit),
                            !.vx = 0, !.vy = 0,
                            !.spawn = [x |-> 60 * Unit, y |-> y]]]

(* ---------------- MAIN: the STATE_PLAY update (lines 438-550) ---------------- *)
\* A frame works on G = [p, coins, mush, enemies, state]: the player, the three
\* entity arrays it writes, and the stage.  Each operator below is one block
\* of the update, in the order of the source.

PlayerRect(p) == IntRect(p.r)

\* lines 440-448: horizontal input, speed clamp, gravity
play_input(p, keys) ==
  LET ax == (IF keys.left = 1 THEN -90 ELSE 0) + (IF keys.right = 1 THEN 90 ELSE 0)
      vx1 == p.vx + ax
      vx2 == IF vx1 > MAX_XSPEED THEN MAX_XSPEED
             ELSE IF vx1 < -MAX_XSPEED THEN -MAX_XSPEED ELSE vx1
      vy1 == p.vy + GRAVITY
      vy2 == IF vy1 > 20 * Unit THEN 20 * Unit ELSE vy1
  IN [p EXCEPT !.vx = vx2, !.vy = vy2]

\* line 453: ground friction
play_friction(p) ==
  IF p.on_ground = 1 /\ Abs(p.vx) > 1
  THEN LET v == fmul(p.vx, 82)
       IN [p EXCEPT !.vx = IF Abs(v) < 10 THEN 0 ELSE v]
  ELSE p

\* lines 440-453
play_physics(G, keys, sol) ==
  [G EXCEPT !.p = play_friction(
                    resolve_vert_collision(
                      resolve_horz_collision(play_input(G.p, keys), sol), sol))]

\* play_coins without the test of the active flag (line 457 left out)
play_coins_any(G) ==
  LET pr == PlayerRect(G.p)
      got == {i \in 1..Len(G.coins) : aabb_int(pr, G.coins[i].r)}
      n == Cardinality(got)
  IN [G EXCEPT !.coins = [i \in 1..Len(G.coins) |->
                             IF i \in got THEN [G.coins[i] EXCEPT !.active = 0]
                             ELSE G.coins[i]],
               !.p.coins = G.p.coins + n,
               !.p.score = G.p.score + 100 * n]

\* lines 455-464: the player does not move during the loop, so every active
\* coin under the player's rectangle is picked up
play_coins(G) ==
  LET pr == PlayerRect(G.p)
      got == {i \in 1..Len(G.coins) : G.coins[i].active = 1 /\ aabb_int(pr, G.coins[i].r)}
      n == Cardinality(got)
  IN [G EXCEPT !.coins = [i \in 1..Len(G.coins) |->
                             IF i \in got THEN [G.coins[i] EXCEPT !.active = 0]
                             ELSE G.coins[i]],
               !.p.coins = G.p.coins + n,
               !.p.score = G.p.score + 100 * n]

\* lines 467-482: one iteration of the mushroom loop
mush_touch(G, i) ==
  IF G.mush[i].active = 1 /\ aabb_int(PlayerRect(G.p), G.mush[i].r)
  THEN IF G.p.big = 0
       THEN [G EXCEPT !.mush[i].active = 0,
                      !.p.big = 1,
                      !.p.r.h = G.p.r.h + (TILE \div 2) * Unit,
                      !.p.r.y = G.p.r.y - (TILE \div 2) * Unit,
                      !.p.big_timer = 12 * FPS,
                      !.p.score = G.p.score + 500]
       ELSE [G EXCEPT !.mush[i].active = 0,
                      !.p.score = G.p.score + 200]
  ELSE G

RECURSIVE mush_loop(_, _)
mush_loop(G, i) ==
  IF i > Len(G.mush) THEN G ELSE mush_loop(mush_touch(G, i), i + 1)

\* lines 466-483
play_mushrooms(G) == mush_loop(G, 1)

\* line 485
play_enemies(G, sol) == [G EXCEPT !.enemies = update_enemies(G.enemies, sol)]

\* line 493: the stomp test
is_stomp_rising(p, er) == p.vy < 0 /\ (p.r.y + p.r.h) - er.y * Unit < 16 * Unit

is_stomp(p, er) == p.vy > 0 /\ (p.r.y + p.r.h) - er.y * Unit < 16 * Unit

lose_life_on(G) ==
  [G EXCEPT !.p.lives = G.p.lives - 1,
            !.p.r.x = G.p.spawn.x,
            !.p.r.y = G.p.spawn.y,
            !.p.vx = 0, !.p.vy = 0]

\* lines 504-509, 516-520, 543-548: lose a life and respawn
lose_life(G) ==
  [G EXCEPT !.p.lives = G.p.lives - 1,
            !.p.r.x = G.p.spawn.x,
            !.p.r.y = G.p.spawn.y,
            !.p.vx = 0, !.p.vy = 0,
            !.state = IF G.p.lives - 1 <= 0 THEN "GAME_OVER" ELSE G.state]

\* lines 488-512: one iteration of the enemy interaction loop
enemy_touch(G, i) ==
  IF G.enemies[i].active = 1 /\ aabb_int(PlayerRect(G.p), G.enemies[i].r)
  THEN IF is_stomp(G.p, G.enemies[i].r)
       THEN [G EXCEPT !.enemies[i].active = 0,
                      !.p.vy = fmul(JUMP_VEL, 60),
                      !.p.score = G.p.score + 200]
       ELSE IF G.p.big = 1
            THEN [G EXCEPT !.p.big = 0,
                           !.p.r.h = G.p.r.h - (TILE \div 2) * Unit,
                           !.p.r.y = G.p.r.y + (TILE \div 2) * Unit]
            ELSE lose_life(G)
  ELSE G

RECURSIVE enemy_loop(_, _)
enemy_loop(G, i) ==
  IF i > Len(G.enemies) THEN G ELSE enemy_loop(enemy_touch(G, i), i + 1)

\* lines 487-513
play_contacts(G) == enemy_loop(G, 1)

\* lines 515-521
play_fall(G) == IF G.p.r.y > (SCREEN_H + 200) * Unit THEN lose_life(G) ELSE G

play_goal_win(G, goal_e, goal_r) ==
  IF goal_e = 1 /\ aabb_int(PlayerRect(G.p), goal_r)
  THEN [G EXCEPT !.state = "WIN"] ELSE G

\* lines 523-529
play_goal(G, goal_e, goal_r) ==
  IF goal_e = 1 /\ aabb_int(PlayerRect(G.p), goal_r)
  THEN [G EXCEPT !.state = "LEVEL_CLEAR"] ELSE G

\* lines 531-538; big_timer in steps of 1/FPS s
play_big_timer(G) ==
  IF G.p.big = 1
  THEN IF G.p.big_timer - 1 <= 0
       THEN [G EXCEPT !.p.big_timer = G.p.big_timer - 1,
                      !.p.big = 0,
                      !.p.r.h = G.p.r.h - (TILE \div 2) * Unit,
                      !.p.r.y = G.p.r.y + (TILE \div 2) * Unit]
       ELSE [G EXCEPT !.p.big_timer = G.p.big_timer - 1]
  ELSE G

\* lines 540-549; time_up says whether time_left <= 0 when the clock is read
play_level_timer(G, time_up) == IF time_up THEN lose_life(G) ELSE G

\* the blocks before the enemy interaction loop, lines 440-485
before_contacts(G, keys, sol) ==
  play_enemies(play_mushrooms(play_coins(play_physics(G, keys, sol))), sol)

\* the blocks up to and including the fall check, lines 440-521
before_goal(G, keys, sol) == play_fall(play_contacts(before_contacts(G, keys, sol)))

\* the whole update, lines 438-550
play_update(G, keys, sol, goal_e, goal_r, time_up) ==
  play_level_timer(
    play_big_timer(play_goal(before_goal(G, keys, sol), goal_e, goal_r)), time_up)

(* ---------------- reduced level tables ---------------- *)
\* The shipped levels are 80 columns wide and their first coin is 25 frames
\* from the spawn point.  The game is also run on level tables of the same
\* shape (NUM_LEVELS grids of 8 rows, same legend) that are four columns wide,
\* so that coins, mushrooms, enemies and the goal are within a few frames of
\* the spawn column (column 1).
B4 == <<" ", " ", " ", " ">>

\* floor in row 6, goal to the right of the spawn column
CORRIDOR ==
  <<B4, B4, B4, B4, B4, B4,
    <<"=", "=", "=", "=">>,
    <<" ", " ", "F", " ">> >>

\* a coin on the spawn column and one beside it
COIN_ROOM ==
  <<B4, B4, B4, B4, B4,
    <<" ", "C", "C", " ">>,
    <<"=", "=", "=", "=">>,
    <<" ", " ", "F", " ">> >>

\* an enemy beside the spawn column, over the lower floor, under a block;
\* the goal is to the left
ENEMY_ROOM ==
  <<B4, B4, B4, B4,
    <<" ", " ", "X", " ">>,
    B4,
    <<"t", "t", "E", "t">>,
    <<"F", "=", "=", "=">> >>

\* a mushroom on the spawn column, an enemy to its right, the goal to the left
MUSH_ROOM ==
  <<B4, B4, B4, B4, B4,
    <<" ", "M", "E", " ">>,
    <<"=", "=", "=", "=">>,
    <<"F", " ", " ", " ">> >>

\* no floor under the spawn column
PIT_ROOM ==
  <<B4, B4, B4, B4, B4, B4,
    <<" ", " ", "=", "=">>,
    B4 >>

\* a walled stretch of floor: blocks on columns 0 and 3 of the row above it
WALL_ROOM ==
  <<B4, B4, B4, B4, B4,
    <<"X", " ", " ", "X">>,
    <<"=", "=", "=", "=">>,
    B4 >>

\* the same with walls two blocks high
TOWER_ROOM ==
  <<B4, B4, B4, B4,
    <<"X", " ", " ", "X">>,
    <<"X", " ", " ", "X">>,
    <<"=", "=", "=", "=">>,
    B4 >>

\* the level tables the game is run on: the shipped one and the reduced ones
Packs ==
  <<LEVELS,
    <<COIN_ROOM, CORRIDOR, CORRIDOR>>,
    <<ENEMY_ROOM, CORRIDOR, CORRIDOR>>,
    <<PIT_ROOM, CORRIDOR, CORRIDOR>>,
    <<MUSH_ROOM, CORRIDOR, CORRIDOR>> >>

\* the tables without a mushroom, and the one with
PlainPacks == {1, 2, 3, 4}
BigPacks == {5}

(* ---------------- bounds ---------------- *)
\* frames run since the player was last placed on the spawn point
MaxFrames == 12
\* key events (held-key changes, jump and R presses) in one run
MaxInputs == 2
\* key events are delivered in the first InputWindow frames after a spawn
InputWindow == 2
\* frames in one run at which the level timer has run out
MaxTimeouts == 1

(* ---------------- state ---------------- *)
VARIABLES
  pc,           \* which program is running: "game", or a single call
  pack,         \* index in Packs of the level table in use (never changes)
  state,        \* the stage: TITLE, PLAY, LEVEL_CLEAR, GAME_OVER, WIN
  level_idx,
  player,
  keystate,     \* SDL_GetKeyboardState: left/right held
  solids, coins, enemies, mush, goal_rect, goal_exists,
  shown,        \* the stage at the last frame boundary (when it was rendered)
  oob,          \* TRUE once LEVELS has been read past its end
  frames, inputs, timeouts,
  t0_fresh,     \* TRUE while the loop iteration that set t0 has not finished
  map_lines     \* the grid handed to build_level (single-call specifications)

vars == <<pc, pack, state, level_idx, player, keystate, solids, coins, enemies,
          mush, goal_rect, goal_exists, shown, oob, frames, inputs, timeouts,
          t0_fresh, map_lines>>

level_vars == <<solids, coins, enemies, mush, goal_rect, goal_exists>>

KeyStates == {[left |-> 0, right |-> 0], [left |-> 1, right |-> 0], [left |-> 0, right |-> 1]}

\* Player player = {0}; then lines 382-383
Player0 ==
  [r |-> Rect(0, 0, (TILE - 12) * Unit, (TILE - 8) * Unit), vx |-> 0, vy |-> 0,
   on_ground |-> 0, big |-> 0, big_timer |-> 0, coins |-> 0, score |-> 0,
   lives |-> 3, spawn |-> [x |-> 0, y |-> 0]]

\* the current frame's view of the game
Game == [p |-> player, coins |-> coins, mush |-> mush, enemies |-> enemies, state |-> state]

\* install the result of start_level
Started(s) ==
  /\ player' = s.player
  /\ solids' = s.level.solids
  /\ coins' = s.level.coins
  /\ enemies' = s.level.enemies
  /\ mush' = s.level.mush
  /\ goal_rect' = s.level.goal_rect
  /\ goal_exists' = s.level.goal_exists
  /\ frames' = 0
  /\ t0_fresh' = TRUE

\* lines 379-387, on one of the level tables in P
InitGame(P) ==
  /\ pc = "game"
  /\ pack \in P
  /\ state = "TITLE"
  /\ level_idx = 0
  /\ keystate = [left |-> 0, right |-> 0]
  /\ LET s == start_level(Packs[pack][1], Player0, Rect(0, 0, 0, 0))
     IN /\ player = s.player
        /\ solids = s.level.solids
        /\ coins = s.level.coins
        /\ enemies = s.level.enemies
        /\ mush = s.level.mush
        /\ goal_rect = s.level.goal_rect
        /\ goal_exists = s.level.goal_exists
  /\ shown = "TITLE"
  /\ oob = FALSE
  /\ frames = 0
  /\ inputs = 0
  /\ timeouts = 0
  /\ t0_fresh = TRUE
  /\ map_lines = << >>

Running == pc = "game" /\ ~oob

\* lines 408-426: SDL_KEYDOWN with SDLK_RETURN
KeyReturn ==
  /\ Running
  /\ \/ /\ state \in {"TITLE", "GAME_OVER"}
        /\ state' = "PLAY"
        /\ level_idx' = 0
        /\ Started(start_level(Packs[pack][1],
                               [player EXCEPT !.score = 0, !.coins = 0, !.lives = 3],
                               goal_rect))
     \/ /\ state = "LEVEL_CLEAR"
        /\ level_idx + 1 >= NUM_LEVELS
        /\ level_idx' = level_idx + 1
        /\ state' = "WIN"
        /\ UNCHANGED <<player, level_vars, frames, t0_fresh>>
     \/ /\ state = "LEVEL_CLEAR"
        /\ level_idx + 1 < NUM_LEVELS
        /\ level_idx' = level_idx + 1
        /\ state' = "PLAY"
        /\ Started(start_level(Packs[pack][level_idx + 2], player, goal_rect))
  /\ UNCHANGED <<pc, pack, keystate, shown, oob, inputs, timeouts, map_lines>>

\* lines 427-428: SDL_KEYDOWN with SDLK_r, in any stage.  With level_idx =
\* NUM_LEVELS (stage WIN) start_level reads LEVELS[NUM_LEVELS], past the end
\* of the array: the run is not followed further.
KeyR ==
  /\ Running
  /\ inputs < MaxInputs /\ frames < InputWindow
  /\ inputs' = inputs + 1
  /\ IF level_idx < NUM_LEVELS
     THEN /\ Started(start_level(Packs[pack][level_idx + 1], player, goal_rect))
          /\ oob' = oob
     ELSE /\ oob' = TRUE
          /\ UNCHANGED <<player, level_vars, frames, t0_fresh>>
  /\ UNCHANGED <<pc, pack, state, level_idx, keystate, shown, timeouts, map_lines>>

\* lines 429-432: SDL_KEYDOWN with z, space or up
KeyJump ==
  /\ Running
  /\ inputs < MaxInputs /\ frames < InputWindow
  /\ state = "PLAY" /\ player.on_ground = 1
  /\ inputs' = inputs + 1
  /\ player' = [player EXCEPT !.vy = fmul(JUMP_VEL, IF player.big = 1 THEN 95 ELSE 100)]
  /\ UNCHANGED <<pc, pack, state, level_idx, keystate, level_vars, shown, oob, frames,
                 timeouts, t0_fresh, map_lines>>

\* a left/right key goes down or up: no branch of the handler matches, only
\* the keyboard state read at line 437 changes.  The keyboard state is only
\* read in stage PLAY, so the change is followed there.
KeyHold ==
  /\ Running
  /\ inputs < MaxInputs /\ frames < InputWindow
  /\ state = "PLAY"
  /\ inputs' = inputs + 1
  /\ \E k \in KeyStates : k # keystate /\ keystate' = k
  /\ UNCHANGED <<pc, pack, state, level_idx, player, level_vars, shown, oob, frames,
                 timeouts, t0_fresh, map_lines>>

\* lines 437-550 and the render that follows: one frame
Frame ==
  /\ Running
  /\ IF state = "PLAY"
     THEN /\ frames < MaxFrames
          /\ LET B == play_big_timer(
                        play_goal(before_goal(Game, keystate, solids), goal_exists, goal_rect))
             IN \E time_up \in BOOLEAN :
                  /\ time_up => (timeouts < MaxTimeouts /\ ~t0_fresh)
                  /\ timeouts' = IF time_up THEN timeouts + 1 ELSE timeouts
                  /\ LET G == play_level_timer(B, time_up)
                     IN /\ player' = G.p
                        /\ coins' = G.coins
                        /\ mush' = G.mush
                        /\ enemies' = G.enemies
                        /\ state' = G.state
                        /\ shown' = G.state
                        /\ frames' = IF G.p.lives < player.lives THEN 0 ELSE frames + 1
     ELSE /\ shown' = state
          /\ UNCHANGED <<player, coins, mush, enemies, state, frames, timeouts>>
  /\ t0_fresh' = FALSE
  /\ UNCHANGED <<pc, pack, level_idx, keystate, solids, goal_rect, goal_exists, oob,
                 inputs, map_lines>>

Init == InitGame(PlainPacks)

Next == KeyReturn \/ KeyR \/ KeyJump \/ KeyHold \/ Frame

\* the game on the level tables without a mushroom
Spec == Init /\ [][Next]_vars

InitBig == InitGame(BigPacks)

\* the game on the level table with a mushroom
SpecBig == InitBig /\ [][Next]_vars

(* ---------------- single calls ---------------- *)
\* the game variables a single call does not use
Unused ==
  /\ pack = 1 /\ state = "PLAY" /\ level_idx = 0 /\ shown = "PLAY"
  /\ keystate = [left |-> 0, right |-> 0]
  /\ oob = FALSE /\ frames = 0 /\ inputs = 0 /\ timeouts = 0 /\ t0_fresh = FALSE

NoGoal == Rect(0, 0, 0, 0)

\* player positions between the walls of WALL_ROOM, in steps of 1/Unit px:
\* clear of the walls, a fraction of a pixel from the right wall, at the
\* left wall
HorzXs == {4800, 5000, 10200, 10750, 10760, 10799}
\* standing on the floor beside the wall block, and jumping just above it
HorzYs == {24800, 19940, 20060}
HorzVs == {-600, -74, 0, 49, 74, 600}
HorzRooms == {WALL_ROOM, TOWER_ROOM}

InitHorz ==
  /\ pc = "resolve_horz_collision"
  /\ Unused
  /\ \E room \in HorzRooms :
       /\ map_lines = room
       /\ solids = build_level(room, 8, NoGoal).solids
  /\ coins = << >> /\ enemies = << >> /\ mush = << >>
  /\ goal_rect = NoGoal /\ goal_exists = 0
  /\ \E x \in HorzXs, y \in HorzYs, v \in HorzVs :
       player = [Player0 EXCEPT !.r.x = x, !.r.y = y, !.vx = v]

\* line 450: resolve_horz_collision(&player)
HorzCall ==
  /\ pc = "resolve_horz_collision"
  /\ pc' = "done"
  /\ player' = resolve_horz_collision(player, solids)
  /\ UNCHANGED <<pack, state, level_idx, keystate, level_vars, shown, oob, frames,
                 inputs, timeouts, t0_fresh, map_lines>>

\* one call of resolve_horz_collision
SpecHorz == InitHorz /\ [][HorzCall]_vars

\* a grid with characters outside the legend beside legend characters
ODD_ROOM ==
  <<B4, B4, B4,
    <<"x", "C", "#", "F">>,
    <<"c", "M", "e", "?">>,
    <<"P", "E", "T", "f">>,
    <<"t", "X", "=", "0">>,
    <<"m", "=", "-", "X">> >>

\* a grid with more solid characters than the solids array holds
WideCols == MAX_SOLIDS \div 8 + 1
WIDE_ROOM == [j \in 1..8 |-> [i \in 1..WideCols |-> IF j = 8 THEN "=" ELSE "X"]]

\* columns of the enumerated two-row grids
MaxCols == 2
GridChars == {"X", "=", "t", "C", " ", "#"}
SmallGrids == [1..2 -> [1..MaxCols -> GridChars]]

BuildGrids ==
  SmallGrids \cup {WIDE_ROOM, ODD_ROOM, COIN_ROOM, ENEMY_ROOM, MUSH_ROOM, PIT_ROOM}
             \cup {LEVELS[k] : k \in 1..NUM_LEVELS}

InitBuild ==
  /\ pc = "build_level"
  /\ Unused
  /\ map_lines \in BuildGrids
  /\ solids = << >> /\ coins = << >> /\ enemies = << >> /\ mush = << >>
  /\ goal_rect = NoGoal /\ goal_exists = 0
  /\ player = Player0

\* line 325: build_level(map_lines, rows) on the whole grid
BuildCall ==
  /\ pc = "build_level"
  /\ pc' = "done"
  /\ LET b == build_level(map_lines, Len(map_lines), goal_rect)
     IN /\ solids' = b.solids
        /\ coins' = b.coins
        /\ enemies' = b.enemies
        /\ mush' = b.mush
        /\ goal_rect' = b.goal_rect
        /\ goal_exists' = b.goal_exists
  /\ UNCHANGED <<pack, state, level_idx, player, keystate, shown, oob, frames,
                 inputs, timeouts, t0_fresh, map_lines>>

\* one call of build_level
SpecBuild == InitBuild /\ [][BuildCall]_vars

\* enemies between the walls of WALL_ROOM: at a wall, one pixel from it and
\* in the open; hanging 8 px above the floor as build_level leaves them, and
\* standing on it.  update_enemies is followed as a function of the two
\* arrays: an enemy left by build_level never comes next to a wall.
EnemyXs == {TILE, TILE + 1, TILE + 12, 3 * TILE - 37, 3 * TILE - 36}
EnemyYs == {5 * TILE + 8, 5 * TILE + 16}
EnemySet ==
  {[r |-> Rect(x, y, TILE - 12, TILE - 16), active |-> a, dir |-> d, speed |-> 120] :
     x \in EnemyXs, y \in EnemyYs, a \in {0, 1}, d \in {-1, 1}}

InitEnemy ==
  /\ pc = "update_enemies"
  /\ Unused
  /\ map_lines = WALL_ROOM
  /\ solids = build_level(WALL_ROOM, 8, NoGoal).solids
  /\ coins = << >> /\ mush = << >>
  /\ goal_rect = NoGoal /\ goal_exists = 0
  /\ player = Player0
  /\ enemies \in [1..2 -> EnemySet]

\* line 485: update_enemies(dt)
EnemyCall ==
  /\ pc = "update_enemies"
  /\ pc' = "done"
  /\ enemies' = update_enemies(enemies, solids)
  /\ UNCHANGED <<pack, state, level_idx, player, keystate, solids, coins, mush,
                 goal_rect, goal_exists, shown, oob, frames, inputs, timeouts,
                 t0_fresh, map_lines>>

\* one call of update_enemies
SpecEnemy == InitEnemy /\ [][EnemyCall]_vars

(* ======================= the claims ======================= *)

\* a step that is one frame of stage PLAY (key events count as inputs, and
\* Return does nothing in stage PLAY)
PlayFrame == pc = "game" /\ state = "PLAY" /\ inputs' = inputs

\* the entries of an array whose active flag this step clears
Cleared(old, new) == {i \in 1..Len(old) : old[i].active = 1 /\ new[i].active = 0}

\* the score a frame awards for the mushrooms it takes: 500 for the one that
\* makes the player big, 200 for every other
MushAward(n) == IF n = 0 THEN 0
                ELSE IF player.big = 0 THEN 500 + 200 * (n - 1) ELSE 200 * n

C1_Step ==
  PlayFrame =>
    LET n == Cardinality(Cleared(coins, coins'))
    IN /\ Len(coins') = Len(coins)
       /\ \A i \in 1..Len(coins) :
            /\ coins'[i].r = coins[i].r
            /\ coins[i].active = 0 => coins'[i].active = 0
       /\ player'.coins = player.coins + n
       /\ player'.score = player.score + 100 * n
                          + MushAward(Cardinality(Cleared(mush, mush')))
                          + 200 * Cardinality(Cleared(enemies, enemies'))

\* C1: in every frame of stage PLAY the coin count rises by the number N of
\* coins whose active flag the frame clears and the score by 100*N (beside
\* the mushroom and stomp awards); a coin stays in the array, and one whose
\* flag is cleared stays cleared, so standing on it again changes nothing.
C1_CoinPickup == [][C1_Step]_vars

\* both coins of the coin room are taken and the player still stands on one
C1_Witness ==
  /\ pack = 2 /\ state = "PLAY" /\ level_idx = 0
  /\ player.coins = 2 /\ player.score = 200
  /\ \E i \in 1..Len(coins) :
       coins[i].active = 0 /\ aabb_int(PlayerRect(player), coins[i].r)

\* the enemies a rectangle overlaps
Touching(r, en) == {i \in 1..Len(en) : en[i].active = 1 /\ aabb_int(r, en[i].r)}

FellOff(y) == y > (SCREEN_H + 200) * Unit

C2_Step ==
  PlayFrame =>
    LET M == before_contacts(Game, keystate, solids)
        H == Touching(PlayerRect(M.p), M.enemies)
        AtSpawn == IntRect(Rect(M.p.spawn.x, M.p.spawn.y, M.p.r.w, M.p.r.h))
    IN \A i \in H :
         LET e == M.enemies[i].r
             only == /\ H = {i}
                     /\ timeouts' = timeouts
                     /\ ~FellOff(M.p.r.y) /\ ~FellOff(M.p.spawn.y)
                     /\ Touching(AtSpawn, M.enemies) \subseteq {i}
         IN only =>
              IF M.p.vy > 0 /\ (M.p.r.y + M.p.r.h) - e.y * Unit < 16 * Unit
              THEN /\ enemies'[i].active = 0
                   /\ player'.score = M.p.score + 200
                   /\ player'.vy = (JUMP_VEL * 6) \div 10
                   /\ player'.lives = M.p.lives
              ELSE M.p.big = 0 =>
                   /\ player'.lives = M.p.lives - 1
                   /\ player'.r.x = M.p.spawn.x /\ player'.r.y = M.p.spawn.y
                   /\ player'.vx = 0 /\ player'.vy = 0
                   /\ player'.score = M.p.score
                   /\ enemies'[i].active = 1

\* C2: in a Play frame where the player's rectangle overlaps one active
\* enemy after the enemies have moved, a falling player (vy > 0) whose bottom
\* edge is less than 16 px below the enemy's top stomps it: the enemy becomes
\* inactive, the score rises by 200 and vy becomes 0.6 * JUMP_VEL; any other
\* contact with a player that is not big costs exactly one life and puts the
\* player back on the spawn point with zero velocity.
C2_EnemyContact == [][C2_Step]_vars

\* a run of the enemy room in which the player first walked into the enemy
\* (one life gone) and has just stomped it
C2_Witness ==
  /\ pack = 3 /\ state = "PLAY" /\ level_idx = 0 /\ timeouts = 0
  /\ Len(enemies) = 1 /\ enemies[1].active = 0
  /\ player.lives = 2 /\ player.score = 200 /\ player.vy = (JUMP_VEL * 6) \div 10

\* the player's rectangle at the goal check of line 526 overlaps the goal
AtGoal(G) == goal_exists = 1 /\ aabb_int(PlayerRect(G.p), goal_rect)

C3_Step ==
  /\ PlayFrame =>
       LET B == before_goal(Game, keystate, solids)
       IN (AtGoal(B) /\ B.p.lives > 0) => state' = "LEVEL_CLEAR"
  /\ (pc = "game" /\ state = "LEVEL_CLEAR") =>
       \/ state' = "LEVEL_CLEAR"
       \/ level_idx' = level_idx + 1 /\ state' \in {"PLAY", "WIN"}

\* C3: a Play frame in which the player's rectangle overlaps the goal while
\* lives > 0 ends in LevelClear, and the level is cleared once: LevelClear
\* is left only for the next level or for Win, however long the overlap lasts.
C3_GoalClears == [][C3_Step]_vars

C4_Step ==
  (PlayFrame /\ player.big = 1 /\ player'.big = 0) =>
    player'.r.h = (TILE - 8) * Unit

\* C4: when a frame turns the big state off, by big-timer expiry or by the
\* enemy-contact shrink, the player's rectangle is back at the height it had
\* before the mushroom was picked up, TILE - 8, the height start_level gives
\* the small player.
C4_BigRoundTrip == [][C4_Step]_vars

C5_Step ==
  (pc = "resolve_horz_collision" /\ pc' = "done" /\ player.vx > 0) =>
    LET test == IntRect([player.r EXCEPT !.x = player.r.x + player.vx])
        hits == {i \in 1..Len(solids) : aabb_int(test, solids[i])}
    IN hits # {} =>
         LET first == CHOOSE i \in hits : \A k \in hits : i <= k
         IN /\ player'.r.x + player'.r.w = solids[first].x * Unit
            /\ player'.vx = 0
            /\ player'.r.x # player.r.x + player.vx
            /\ player'.r.y = player.r.y /\ player'.r.w = player.r.w
            /\ player'.r.h = player.r.h /\ player'.vy = player.vy

GridCells == {c \in (1..Len(map_lines)) \X (1..WideCols) : c[2] <= Len(map_lines[c[1]])}
CharAt(c) == map_lines[c[1]][c[2]]
CellX(c) == (c[2] - 1) * TILE
CellY(c) == (c[1] - 1) * TILE
Before(a, c) == a[1] < c[1] \/ (a[1] = c[1] /\ a[2] < c[2])
\* solid characters met before position c in scan order
SolidsBefore(c) ==
  Cardinality({a \in GridCells : Before(a, c) /\ CharAt(a) \in {"X", "=", "t"}})
TileAt(c) == Rect(CellX(c), CellY(c), TILE, TILE)
Copies(c) == Cardinality({k \in 1..Len(solids) : solids[k] = TileAt(c)})

\* every entity stems from a legend character at its position
FromLegend ==
  /\ \A k \in 1..Len(solids) : \E c \in GridCells :
        \/ CharAt(c) \in {"X", "="} /\ solids[k] = TileAt(c)
        \/ CharAt(c) = "t"
           /\ solids[k] = Rect(CellX(c), CellY(c) + TILE \div 2, TILE, TILE \div 2)
  /\ \A k \in 1..Len(coins) : \E c \in GridCells :
        /\ CharAt(c) = "C"
        /\ coins[k].r = Rect(CellX(c) + TILE \div 4, CellY(c) + TILE \div 4,
                              TILE \div 2, TILE \div 2)
  /\ \A k \in 1..Len(enemies) : \E c \in GridCells :
        /\ CharAt(c) = "E"
        /\ enemies[k].r = Rect(CellX(c) + 6, CellY(c) + 8, TILE - 12, TILE - 16)
  /\ \A k \in 1..Len(mush) : \E c \in GridCells :
        /\ CharAt(c) = "M"
        /\ mush[k].r = Rect(CellX(c) + 12, CellY(c) + 12, TILE - 24, TILE - 24)
  /\ goal_exists = 1 => \E c \in GridCells : CharAt(c) = "F"

\* C6 as stated: after build_level every 'X' or '=' of the grid is exactly
\* one TILE x TILE solid at (column*TILE, row*TILE), and characters outside
\* the legend have created no solid, coin, enemy, mushroom or goal.
C6_AllGrids ==
  pc = "done" =>
    /\ \A c \in GridCells : CharAt(c) \in {"X", "="} => Copies(c) = 1
    /\ FromLegend

\* C6, amended: after build_level every 'X' or '=' that fewer than
\* MAX_SOLIDS solid characters ('X', '=', 't') precede in scan order is
\* exactly one TILE x TILE solid at (column*TILE, row*TILE), a later one has
\* created no solid, and characters outside the legend have created nothing.
C6_WithinCapacity ==
  pc = "done" =>
    /\ \A c \in GridCells : CharAt(c) \in {"X", "="} =>
          Copies(c) = IF SolidsBefore(c) < MAX_SOLIDS THEN 1 ELSE 0
    /\ FromLegend

\* the grid with more solid characters than MAX_SOLIDS has been built
C6_Witness ==
  /\ pc = "done"
  /\ Len(solids) = MAX_SOLIDS
  /\ \E c \in GridCells : CharAt(c) = "=" /\ SolidsBefore(c) >= MAX_SOLIDS

\* the stage changes named by the state machine
Edges ==
  {<<"TITLE", "PLAY">>, <<"PLAY", "LEVEL_CLEAR">>, <<"PLAY", "GAME_OVER">>,
   <<"LEVEL_CLEAR", "PLAY">>, <<"LEVEL_CLEAR", "WIN">>, <<"GAME_OVER", "PLAY">>}

C7_Step ==
  pc = "game" =>
    /\ shown' # shown => <<shown, shown'>> \in Edges
    /\ state' # state =>
         \/ /\ state = "TITLE" /\ state' = "PLAY"
            /\ KeyReturn /\ level_idx' = 0
         \/ /\ state = "PLAY" /\ state' \in {"LEVEL_CLEAR", "GAME_OVER"}
            /\ Frame
         \/ /\ state = "LEVEL_CLEAR" /\ state' = "PLAY"
            /\ KeyReturn /\ level_idx' = level_idx + 1 /\ level_idx' < NUM_LEVELS
         \/ /\ state = "LEVEL_CLEAR" /\ state' = "WIN"
            /\ KeyReturn /\ level_idx + 1 >= NUM_LEVELS
         \/ /\ state = "GAME_OVER" /\ state' = "PLAY"
            /\ KeyReturn /\ level_idx' = 0

\* C7: the stage seen at frame boundaries changes only along the edges
\* Title-Play, Play-LevelClear, Play-GameOver, LevelClear-Play,
\* LevelClear-Win and GameOver-Play; Play is left only by a frame's update,
\* every other stage only by the Enter handler: LevelClear goes to the next
\* level when one exists and to Win otherwise, Title and GameOver go to
\* level 1, and Win, GameOver and LevelClear never change in a frame.
C7_StageEdges == [][C7_Step]_vars

\* the third level has been cleared and Enter has led to Win
C7_Witness == pc = "game" /\ state = "WIN" /\ shown = "WIN" /\ level_idx = NUM_LEVELS

C8_Step ==
  /\ (PlayFrame /\ player'.lives < player.lives /\ player'.lives <= 0) =>
       state' = "GAME_OVER"
  /\ (pc = "game" /\ state' \in {"PLAY", "LEVEL_CLEAR"}) => player'.lives > 0

\* C8: a Play frame whose life deductions leave lives <= 0 ends in
\* GameOver, and no step leaves the stage at Play or LevelClear with
\* lives <= 0.
C8_LivesEndRun == [][C8_Step]_vars

\* the last life has just been taken and the frame has ended in GameOver
C8_Witness ==
  /\ pc = "game" /\ state = "GAME_OVER" /\ shown = "GAME_OVER"
  /\ player.lives <= 0 /\ frames = 0

\* the x of the probe of lines 254-256 for an enemy heading in direction d
AheadX(e, d) == e.r.x + (IF d > 0 THEN e.r.w + 2 ELSE -4)

\* a solid tile lies directly beneath the position just ahead of the enemy:
\* its columns hold the probe's x and its top is at most one tile below the
\* enemy's feet
GroundAhead(e, d, sol) ==
  \E k \in 1..Len(sol) :
    /\ sol[k].x <= AheadX(e, d) /\ AheadX(e, d) < sol[k].x + sol[k].w
    /\ e.r.y + e.r.h <= sol[k].y /\ sol[k].y < e.r.y + e.r.h + TILE

C9_Step ==
  PlayFrame =>
    \A i \in 1..Len(enemies) :
      LET e == enemies[i]
          moved == [e.r EXCEPT !.x = e.r.x + roundf(e.dir * e.speed)]
          free == \A k \in 1..Len(solids) : ~aabb_int(moved, solids[k])
      IN (e.active = 1 /\ free) =>
           /\ GroundAhead([e EXCEPT !.r = moved], e.dir, solids) =>
                enemies'[i].dir = e.dir
           /\ ~GroundAhead([e EXCEPT !.r = moved], e.dir, solids) =>
                enemies'[i].dir = -e.dir

\* C9: in a Play frame an active enemy whose move overlaps no solid tile
\* keeps its direction when a solid tile lies directly beneath the position
\* just ahead of it, and reverses when none does; an enemy that build_level
\* put on top of a row of solid tiles therefore walks along the row.
C9_LedgePatrol == [][C9_Step]_vars

Overlaps(r, sol) == \E k \in 1..Len(sol) : aabb_int(r, sol[k])

C10_Step ==
  (pc = "update_enemies" /\ pc' = "done") =>
    /\ Len(enemies') = Len(enemies)
    /\ \A i \in 1..Len(enemies) :
         LET e == enemies[i]
             after == enemies'[i]
             moved == [e.r EXCEPT !.x = e.r.x + roundf(e.dir * e.speed)]
             hit == Overlaps(moved, solids)
             \* the direction after the wall test of lines 245-252
             heading == IF hit THEN -e.dir ELSE e.dir
             probe == Rect(AheadX(after, heading), after.r.y + after.r.h + 2, 2, 2)
         IN IF e.active = 0
            THEN after = e
            ELSE /\ after.r = IF hit THEN e.r ELSE moved
                 /\ after.active = 1 /\ after.speed = e.speed
                 /\ after.dir = IF Overlaps(probe, solids) THEN heading ELSE -heading
                 /\ after.dir \in {-1, 1}
                 /\ ~Overlaps(e.r, solids) => ~Overlaps(after.r, solids)

\* C10: update_enemies leaves inactive enemies untouched; an active enemy
\* ends round(dir * speed) pixels further in its direction unless the
\* advanced rectangle overlaps a solid tile, in which case its x is the one
\* before the move and its direction has been negated by the wall test (the
\* ledge probe that follows negates it once more when it finds no ground);
\* an enemy that overlapped no solid before the call overlaps none after
\* it, and dir stays in {-1, +1}.
C10_EnemyMove == [][C10_Step]_vars

\* the first enemy stood at the left wall heading left: it is still there
\* and now heads right
C10_Witness ==
  /\ pc = "done" /\ map_lines = WALL_ROOM /\ Len(enemies) = 2
  /\ enemies[1].active = 1 /\ enemies[1].r.x = TILE
  /\ enemies[1].r.y = 5 * TILE + 16 /\ enemies[1].dir = 1

C11_Step ==
  (pc = "game" /\ ~oob /\ state \in {"TITLE", "LEVEL_CLEAR", "GAME_OVER", "WIN"}
     /\ ~KeyReturn) =>
    UNCHANGED <<player, solids, coins, enemies, mush, goal_rect, goal_exists>>

\* C11: while the stage is Title, LevelClear, GameOver or Win, a step of the
\* loop that is not the handling of an Enter key-down leaves the player
\* (rectangle, velocity, score, coins, lives, big state, spawn point) and all
\* level entities (solids, coins, enemies, mushrooms, goal) unchanged.
C11_IdleStages == [][C11_Step]_vars

\* C12: every call of start_level is made with a level index in
\* 0..NUM_LEVELS-1: LEVELS is never read past its end, whatever keys and
\* frames came before, in particular when R is handled.
C12_LevelIndexValid == pc = "game" => (~oob /\ (state # "WIN" => level_idx \in 0..(NUM_LEVELS - 1)))

\* C13: in every state of the game the player's height matches the big
\* flag: TILE-8 exactly when big is 0 and TILE-8+TILE/2 exactly when big is 1.
C13_HeightMatchesBig ==
  pc = "game" =>
    /\ player.big \in {0, 1}
    /\ player.r.h = (TILE - 8 + player.big * (TILE \div 2)) * Unit

C14_Step ==
  pc = "game" =>
    /\ player'.lives \in 0..3
    /\ PlayFrame => player'.lives >= player.lives - 1

\* C14: lives stays within 0..3 and a single Play frame takes at most one
\* life, also when an enemy contact, a fall below the screen and the expiry
\* of the level timer come together in the frame.
C14_LivesRange == [][C14_Step]_vars

====
